---- MODULE Spec2Model ----
(***************************************************************************)
(* Model of create_project.py: a project_template.json document is loaded  *)
(* from the script's directory and a CMake project tree is materialised    *)
(* below the current working directory.                                    *)
(*                                                                         *)
(* Text is a sequence of lines, a line is a string.  A filesystem path is  *)
(* the sequence of its components (pathlib's parts), relative to the       *)
(* working directory; Str renders it back with "/" where the code puts a   *)
(* path into generated text or a message.                                  *)
(***************************************************************************)
EXTENDS Integers, Sequences, FiniteSets, TLC

VARIABLES template, run, twin, runs

vars == <<template, run, twin, runs>>

(***************************************************************************)
(* Bounds of the model                                                     *)
(***************************************************************************)
MaxLibs == 2
MaxExes == 2
MaxRuns == 2

(***************************************************************************)
(* String helpers                                                          *)
(***************************************************************************)
RECURSIVE Join(_, _)
\* sep.join(strs)
Join(strs, sep) ==
    IF strs = <<>> THEN ""
    ELSE IF Len(strs) = 1 THEN strs[1]
    ELSE strs[1] \o sep \o Join(Tail(strs), sep)

\* str(Path): the components joined with "/"
Str(path) == Join(path, "/")

\* [f(x) for x in seq]
StrAll(paths) == [i \in 1..Len(paths) |-> Str(paths[i])]

\* str.upper() on the names the configurations use
Upper(s) ==
    CASE s = "foo" -> "FOO"
      [] s = "bar" -> "BAR"
      [] OTHER -> s

\* dict.get(key, default)
Get(d, key, default) == IF key \in DOMAIN d THEN d[key] ELSE default

(***************************************************************************)
(* Generated text                                                          *)
(***************************************************************************)
KeyError == "KeyError"

\* a wrong block: the link line put after the target's properties
ExeBlockLinkLast(exe) ==
    <<"add_executable(" \o exe.name \o " " \o Join(StrAll(exe.sources), " ") \o ")",
      "",
      "set_target_properties(" \o exe.name \o " PROPERTIES",
      "    RUNTIME_OUTPUT_DIRECTORY ${CMAKE_BINARY_DIR}/bin",
      ")" >>
    \o (IF "dependencies" \in DOMAIN exe /\ exe.dependencies # <<>>
        THEN <<"target_link_libraries(" \o exe.name \o " PRIVATE "
                 \o Join(exe.dependencies, " ") \o ")">>
        ELSE <<>>)

\* one executable's block of the root manifest
ExeBlock(exe) ==
    <<"add_executable(" \o exe.name \o " " \o Join(StrAll(exe.sources), " ") \o ")">>
    \o (IF "dependencies" \in DOMAIN exe /\ exe.dependencies # <<>>
        THEN <<"target_link_libraries(" \o exe.name \o " PRIVATE "
                 \o Join(exe.dependencies, " ") \o ")">>
        ELSE <<>>)
    \o << "",
          "set_target_properties(" \o exe.name \o " PROPERTIES",
          "    RUNTIME_OUTPUT_DIRECTORY ${CMAKE_BINARY_DIR}/bin",
          ")" >>

RECURSIVE ExeBlocks(_)
ExeBlocks(exes) ==
    IF exes = <<>> THEN <<>> ELSE ExeBlock(Head(exes)) \o ExeBlocks(Tail(exes))

\* a wrong order: the libraries taken last to first
LibLinesReversed(libs) ==
    [i \in 1..Len(libs) |-> "add_subdirectory(lib/" \o libs[Len(libs) + 1 - i].name \o ")"]

LibLine(lib) == "add_subdirectory(lib/" \o lib.name \o ")"

LibLines(libs) == [i \in 1..Len(libs) |-> LibLine(libs[i])]

\* the manifest's default for an absent enableTests
ManifestTestsDefault == TRUE

TestsBlock ==
    << "", "", "# --- Testing ---", "enable_testing()", "add_subdirectory(tests)" >>

Preamble(project_name, c_standard, cpp_standard) ==
    << "cmake_minimum_required(VERSION 3.10)",
       "",
       "project(" \o project_name \o " C CXX)",
       "",
       "cmake_policy(SET CMP0135 NEW)",
       "",
       "set(CMAKE_C_STANDARD " \o ToString(c_standard) \o ")",
       "set(CMAKE_CXX_STANDARD " \o ToString(cpp_standard) \o ")",
       "set(CMAKE_C_STANDARD_REQUIRED ON)",
       "set(CMAKE_CXX_STANDARD_REQUIRED ON)",
       "",
       "# Set a default build type if none was specified",
       "if(NOT CMAKE_BUILD_TYPE AND NOT CMAKE_CONFIGURATION_TYPES)",
       "  message(STATUS \"Setting build type to 'Release' as none was specified.\")",
       "  set(CMAKE_BUILD_TYPE Release CACHE STRING \"Choose the type of build, options are: Debug Release RelWithDebInfo MinSizeRel.\" FORCE)",
       "endif()",
       "",
       "# Compiler flags",
       "set(CMAKE_C_FLAGS \"-Wall -Wextra\")",
       "set(CMAKE_CXX_FLAGS \"-Wall -Wextra\")",
       "set(CMAKE_C_FLAGS_DEBUG \"-g\")",
       "set(CMAKE_C_FLAGS_RELEASE \"-O3\")",
       "set(CMAKE_CXX_FLAGS_DEBUG \"-g\")",
       "set(CMAKE_CXX_FLAGS_RELEASE \"-O3\")",
       "",
       "# Add library subdirectories" >>

\* create_main_cmakelists(config): the text, or KeyError when a standard is absent
create_main_cmakelists(config) ==
    IF ~ ({"cStandard", "cppStandard"} \subseteq DOMAIN config) THEN KeyError
    ELSE Preamble(config.projectName, config.cStandard, config.cppStandard)
         \o LibLines(config.libraries)
         \o << "", "# Add executables" >>
         \o ExeBlocks(config.executables)
         \o (IF Get(config, "enableTests", ManifestTestsDefault) THEN TestsBlock ELSE <<>>)

create_lib_cmakelists(lib_config) ==
    << "add_library(" \o lib_config.name \o " "
          \o Join(StrAll(lib_config.sources), " ") \o ")",
       "",
       "target_include_directories(" \o lib_config.name \o " PUBLIC include)" >>

\* placeholder program of an executable's source file
ExeSourceText(exe) ==
    << "#include <stdio.h>",
       "",
       "int main(void) {",
       "    printf(\"Hello from " \o exe.name \o "\\n\");",
       "    return 0;",
       "}" >>

\* placeholder source of a library
LibSourceText(lib) ==
    << "#include \"" \o lib.name \o ".h\"",
       "#include <stdio.h>",
       "",
       "void " \o lib.name \o "_hello() {",
       "    printf(\"Hello from " \o lib.name \o "\\n\");",
       "}" >>

\* a wrong guard: taken from the header's file name instead of the library
HeaderGuardOfFile(lib, hdr) == Upper(hdr[Len(hdr)]) \o "_H"

\* header_guard = f'{lib["name"].upper()}_H'
HeaderGuard(lib, hdr) == Upper(lib.name) \o "_H"

HeaderText(lib, hdr) ==
    << "#ifndef " \o HeaderGuard(lib, hdr),
       "#define " \o HeaderGuard(lib, hdr),
       "",
       "void " \o lib.name \o "_hello(void);",
       "",
       "#endif" >>

TestsManifestText ==
    << "# Add GTest",
       "                                                  ",
       "include(FetchContent)",
       "FetchContent_Declare(",
       "  googletest",
       "  URL https://github.com/google/googletest/archive/refs/tags/v1.14.0.zip",
       ")",
       "# For Windows: Prevent overriding the parent project's compiler/linker settings",
       "set(gtest_force_shared_crt ON CACHE BOOL \"\" FORCE)",
       "FetchContent_MakeAvailable(googletest)",
       "",
       "# Create the test executable",
       "add_executable(run_tests test_foo.cpp)",
       "",
       "# Link against GTest and the library to be tested",
       "target_link_libraries(run_tests PRIVATE GTest::gtest_main foo)",
       "",
       "# Discover and add tests to CTest",
       "include(GoogleTest)",
       "gtest_discover_tests(run_tests)" >>

TestsSourceText ==
    << "#include <gtest/gtest.h>",
       "#include \"foo.h\"",
       "",
       "TEST(FooTest, BasicTest) {",
       "    // A simple test to ensure the function can be called",
       "    foo_hello();",
       "    SUCCEED();",
       "}",
       "",
       "TEST(FooTest, AlwaysPasses) {",
       "    EXPECT_TRUE(true);",
       "}" >>

(***************************************************************************)
(* The filesystem below the working directory: path -> entry               *)
(***************************************************************************)
DirEntry == [kind |-> "dir", text |-> <<>>]
FileEntry(text) == [kind |-> "file", text |-> text]

EmptyDisk == <<>>

Parent(p) == SubSeq(p, 1, Len(p) - 1)

\* Path.exists(); the working directory itself (the empty path) always exists
Exists(fs, p) == p = <<>> \/ p \in DOMAIN fs

IsDir(fs, p) == p = <<>> \/ (p \in DOMAIN fs /\ fs[p].kind = "dir")

Put(fs, p, entry) == [q \in DOMAIN fs \cup {p} |-> IF q = p THEN entry ELSE fs[q]]

\* os.mkdir(p): err is "" on success, else the exception raised
Mkdir(fs, p) ==
    IF Exists(fs, p) THEN [err |-> "FileExistsError", fs |-> fs]
    ELSE IF ~ Exists(fs, Parent(p)) THEN [err |-> "FileNotFoundError", fs |-> fs]
    ELSE IF ~ IsDir(fs, Parent(p)) THEN [err |-> "NotADirectoryError", fs |-> fs]
    ELSE [err |-> "", fs |-> Put(fs, p, DirEntry)]

RECURSIVE MkdirParents(_, _)
\* Path.mkdir(parents=True): missing parents are created first
MkdirParents(fs, p) ==
    LET r == Mkdir(fs, p) IN
    IF r.err = "FileNotFoundError" /\ p # <<>>
    THEN LET rp == MkdirParents(fs, Parent(p)) IN
         IF rp.err = "" THEN Mkdir(rp.fs, p) ELSE rp
    ELSE r

\* Path.write_text(text): creates the file or replaces its content
WriteText(fs, p, text) ==
    IF ~ Exists(fs, Parent(p)) THEN [err |-> "FileNotFoundError", fs |-> fs]
    ELSE IF ~ IsDir(fs, Parent(p)) THEN [err |-> "NotADirectoryError", fs |-> fs]
    ELSE IF IsDir(fs, p) THEN [err |-> "IsADirectoryError", fs |-> fs]
    ELSE [err |-> "", fs |-> Put(fs, p, FileEntry(text))]

(***************************************************************************)
(* Environment faults (permission denied, disk full) on one operation:     *)
(*   "none"    the operation runs as the filesystem state decides          *)
(*   "fail"    it raises OSError and leaves nothing                        *)
(*   "partial" it raises OSError after part of its effect: write_text has  *)
(*             opened (created or truncated) the file, mkdir(parents=True) *)
(*             has created the missing parents                             *)
(***************************************************************************)
Faults == {"none", "fail", "partial"}

FaultyMkdir(fs, p, fault) ==
    IF fault = "none" THEN Mkdir(fs, p) ELSE [err |-> "OSError", fs |-> fs]

FaultyMkdirParents(fs, p, fault) ==
    CASE fault = "none" -> MkdirParents(fs, p)
      [] fault = "fail" -> [err |-> "OSError", fs |-> fs]
      [] OTHER ->
           LET rp == MkdirParents(fs, Parent(p)) IN
           IF ~ Exists(fs, Parent(p)) /\ rp.err = ""
           THEN [err |-> "OSError", fs |-> rp.fs]
           ELSE [err |-> "OSError", fs |-> fs]

FaultyWriteText(fs, p, text, fault) ==
    CASE fault = "none" -> WriteText(fs, p, text)
      [] fault = "fail" -> [err |-> "OSError", fs |-> fs]
      [] OTHER ->
           LET r == WriteText(fs, p, <<>>) IN
           IF r.err = "" THEN [err |-> "OSError", fs |-> r.fs] ELSE r

(***************************************************************************)
(* The configuration document and the command line                         *)
(***************************************************************************)
ScriptDir == "/opt/generator"
WorkDir == "/home/user/work"

TemplateName == "project_template.json"

\* a wrong directory: the working directory, Path.cwd()
cwd_dir == WorkDir

\* script_dir = Path(__file__).parent.resolve()
script_dir == ScriptDir

\* script_dir / "project_template.json"
template_path == script_dir \o "/" \o TemplateName

Missing == [state |-> "missing"]
Malformed == [state |-> "malformed", error |-> "Expecting value: line 1 column 1 (char 0)"]
Document(cfg) == [state |-> "ok", json |-> cfg]

NoConfig == <<>>

\* parser.parse_args(): the optional positional outputDir, <<>> for None
parse_args(argv) == [outputDir |-> IF argv = <<>> THEN <<>> ELSE <<argv[1]>>]

\* a wrong root: the command line's outputDir overrides the configuration
project_root_from_args(config, args) ==
    IF args.outputDir # <<>> THEN args.outputDir[1]
    ELSE IF "outputDir" \in DOMAIN config
         THEN config.outputDir \o <<config.projectName>>
         ELSE <<config.projectName>>

\* the project root: outputDir / projectName, or projectName alone
project_root(config, args) ==
    IF "outputDir" \in DOMAIN config
    THEN config.outputDir \o <<config.projectName>>
    ELSE <<config.projectName>>

\* a wrong existence check: root.is_dir()
root_is_dir(fs, root) == IsDir(fs, root)

\* root.exists()
root_exists(fs, root) == Exists(fs, root)

\* a wrong default: the tests directory created when enableTests is absent
CreateTestsDefaultOn == TRUE

\* the default of the tests-directory check for an absent enableTests
CreateTestsDefault == FALSE

(***************************************************************************)
(* One run of main(): a record holding the position in main (pc), the      *)
(* locals, the filesystem (fs; fs0 is the filesystem the run started on),  *)
(* what was printed (out) and the filesystem operations attempted (log).   *)
(***************************************************************************)
StartRun(argv, fs) ==
    [pc |-> "parse_args", argv |-> argv, args |-> parse_args(<<>>),
     config |-> NoConfig, root |-> <<>>, fs |-> fs, fs0 |-> fs,
     ei |-> 1, si |-> 1, li |-> 1, hi |-> 1,
     out |-> <<>>, log |-> <<>>, faulted |-> FALSE]

Terminal == {"returned", "raised"}

\* a wrong outcome: the error of a failed operation is swallowed
AttemptAndGoOn(s, op, path, text, r, fault, next) ==
    [s EXCEPT !.fs = r.fs,
              !.log = Append(@, [op |-> op, path |-> path, text |-> text,
                                 ok |-> r.err = ""]),
              !.faulted = @ \/ fault # "none",
              !.pc = next]

\* the filesystem operation just attempted, its outcome and where main goes on
Attempt(s, op, path, text, r, fault, next) ==
    [s EXCEPT !.fs = r.fs,
              !.log = Append(@, [op |-> op, path |-> path, text |-> text,
                                 ok |-> r.err = ""]),
              !.faulted = @ \/ fault # "none",
              !.pc = IF r.err = "" THEN next ELSE "raised"]

RECURSIVE SkipEmpty(_, _)
\* the next executable from ei on that has a source to write
SkipEmpty(exes, ei) ==
    IF ei > Len(exes) THEN ei
    ELSE IF exes[ei].sources = <<>> THEN SkipEmpty(exes, ei + 1)
    ELSE ei

AfterLibraries(config) ==
    IF Get(config, "enableTests", CreateTestsDefault) THEN "tests_mkdir" ELSE "success"

NextLibrary(s) ==
    IF s.li < Len(s.config.libraries)
    THEN [s EXCEPT !.li = @ + 1, !.si = 1, !.hi = 1, !.pc = "lib_mkdir"]
    ELSE [s EXCEPT !.li = @ + 1, !.pc = AfterLibraries(s.config)]

lib_path(s) == s.root \o <<"lib", s.config.libraries[s.li].name>>

ParseArgsStep(s) == [s EXCEPT !.pc = "load", !.args = parse_args(s.argv)]

LoadConfigStep(s, tpl) ==
    LET doc == tpl[template_path] IN
    CASE doc.state = "missing" ->
           [s EXCEPT !.pc = "returned",
                     !.out = Append(@, "Error: '" \o template_path \o "' not found.")]
      [] doc.state = "malformed" ->
           [s EXCEPT !.pc = "returned",
                     !.out = Append(@, "Error decoding JSON from '" \o template_path
                                        \o "': " \o doc.error)]
      [] OTHER -> [s EXCEPT !.pc = "check", !.config = doc.json]

CheckRootStep(s) ==
    LET root == project_root(s.config, s.args) IN
    IF root_exists(s.fs, root)
    THEN [s EXCEPT !.pc = "returned", !.root = root,
                   !.out = Append(@, "Error: Directory '" \o Str(root)
                                      \o "' already exists.")]
    ELSE [s EXCEPT !.pc = "mkroot", !.root = root,
                   !.out = Append(@, "Creating project '" \o s.config.projectName
                                      \o "' in '" \o Str(root) \o "'...")]

MkRootStep(s, fault) ==
    Attempt(s, "mkdir", s.root, <<>>, FaultyMkdirParents(s.fs, s.root, fault),
            fault, "write_root")

WriteRootManifestStep(s, fault) ==
    LET text == create_main_cmakelists(s.config)
        path == s.root \o <<"CMakeLists.txt">>
        ei   == SkipEmpty(s.config.executables, 1)
        t    == [s EXCEPT !.ei = ei, !.si = 1]
    IN  IF text = KeyError THEN [s EXCEPT !.pc = "raised"]
        ELSE Attempt(t, "write", path, text, FaultyWriteText(s.fs, path, text, fault),
                     fault, IF ei > Len(s.config.executables) THEN "mklib" ELSE "exe_src")

WriteExeSourceStep(s, fault) ==
    LET exe  == s.config.executables[s.ei]
        path == s.root \o exe.sources[s.si]
        text == ExeSourceText(exe)
        last == s.si = Len(exe.sources)
        ei   == IF last THEN SkipEmpty(s.config.executables, s.ei + 1) ELSE s.ei
        t    == [s EXCEPT !.ei = ei, !.si = IF last THEN 1 ELSE @ + 1]
    IN  Attempt(t, "write", path, text, FaultyWriteText(s.fs, path, text, fault),
                fault, IF ei > Len(s.config.executables) THEN "mklib" ELSE "exe_src")

MkLibDirStep(s, fault) ==
    LET path == s.root \o <<"lib">>
        t    == [s EXCEPT !.li = 1, !.si = 1, !.hi = 1]
    IN  Attempt(t, "mkdir", path, <<>>, FaultyMkdir(s.fs, path, fault), fault,
                IF s.config.libraries = <<>> THEN AfterLibraries(s.config)
                ELSE "lib_mkdir")

LibMkdirStep(s, fault) ==
    Attempt(s, "mkdir", lib_path(s), <<>>, FaultyMkdir(s.fs, lib_path(s), fault),
            fault, "lib_manifest")

LibManifestStep(s, fault) ==
    LET lib  == s.config.libraries[s.li]
        path == lib_path(s) \o <<"CMakeLists.txt">>
        text == create_lib_cmakelists(lib)
    IN  Attempt(s, "write", path, text, FaultyWriteText(s.fs, path, text, fault),
                fault, IF lib.sources = <<>> THEN "lib_include" ELSE "lib_src")

LibSourceStep(s, fault) ==
    LET lib  == s.config.libraries[s.li]
        path == lib_path(s) \o lib.sources[s.si]
        text == LibSourceText(lib)
        last == s.si = Len(lib.sources)
        t    == [s EXCEPT !.si = IF last THEN 1 ELSE @ + 1]
    IN  Attempt(t, "write", path, text, FaultyWriteText(s.fs, path, text, fault),
                fault, IF last THEN "lib_include" ELSE "lib_src")

LibIncludeStep(s, fault) ==
    LET lib  == s.config.libraries[s.li]
        path == lib_path(s) \o <<"include">>
        r    == FaultyMkdir(s.fs, path, fault)
    IN  IF lib.headers = <<>> /\ r.err = ""
        THEN NextLibrary(Attempt(s, "mkdir", path, <<>>, r, fault, "lib_mkdir"))
        ELSE Attempt(s, "mkdir", path, <<>>, r, fault, "lib_hdr")

LibHeaderStep(s, fault) ==
    LET lib  == s.config.libraries[s.li]
        hdr  == lib.headers[s.hi]
        path == lib_path(s) \o <<"include">> \o hdr
        text == HeaderText(lib, hdr)
        last == s.hi = Len(lib.headers)
        r    == FaultyWriteText(s.fs, path, text, fault)
    IN  IF last /\ r.err = ""
        THEN NextLibrary(Attempt(s, "write", path, text, r, fault, "lib_mkdir"))
        ELSE Attempt([s EXCEPT !.hi = @ + 1], "write", path, text, r, fault, "lib_hdr")

TestsMkdirStep(s, fault) ==
    LET path == s.root \o <<"tests">> IN
    Attempt(s, "mkdir", path, <<>>, FaultyMkdir(s.fs, path, fault), fault,
            "tests_manifest")

TestsManifestStep(s, fault) ==
    LET path == s.root \o <<"tests", "CMakeLists.txt">> IN
    Attempt(s, "write", path, TestsManifestText,
            FaultyWriteText(s.fs, path, TestsManifestText, fault), fault, "tests_src")

TestsSourceStep(s, fault) ==
    LET path == s.root \o <<"tests", "test_foo.cpp">> IN
    Attempt(s, "write", path, TestsSourceText,
            FaultyWriteText(s.fs, path, TestsSourceText, fault), fault, "success")

SuccessText(s) ==
    << "Project '" \o s.config.projectName \o "' created successfully in '"
          \o Str(s.root) \o "'.",
       "To build:",
       "  cd " \o Str(s.root),
       "  cmake -B build -G Ninja",
       "  cmake --build build" >>

ReportSuccessStep(s) == [s EXCEPT !.pc = "returned", !.out = @ \o SuccessText(s)]

\* main() from wherever the run stands; a finished run stays as it is
Step(s, tpl, fault) ==
    CASE s.pc = "parse_args"     -> ParseArgsStep(s)
      [] s.pc = "load"           -> LoadConfigStep(s, tpl)
      [] s.pc = "check"          -> CheckRootStep(s)
      [] s.pc = "mkroot"         -> MkRootStep(s, fault)
      [] s.pc = "write_root"     -> WriteRootManifestStep(s, fault)
      [] s.pc = "exe_src"        -> WriteExeSourceStep(s, fault)
      [] s.pc = "mklib"          -> MkLibDirStep(s, fault)
      [] s.pc = "lib_mkdir"      -> LibMkdirStep(s, fault)
      [] s.pc = "lib_manifest"   -> LibManifestStep(s, fault)
      [] s.pc = "lib_src"        -> LibSourceStep(s, fault)
      [] s.pc = "lib_include"    -> LibIncludeStep(s, fault)
      [] s.pc = "lib_hdr"        -> LibHeaderStep(s, fault)
      [] s.pc = "tests_mkdir"    -> TestsMkdirStep(s, fault)
      [] s.pc = "tests_manifest" -> TestsManifestStep(s, fault)
      [] s.pc = "tests_src"      -> TestsSourceStep(s, fault)
      [] s.pc = "success"        -> ReportSuccessStep(s)
      [] OTHER                   -> s

(***************************************************************************)
(* Inputs: configuration documents, command lines, initial filesystems     *)
(***************************************************************************)
SeqsUpTo(S, n) == UNION { [1..k -> S] : k \in 0..n }

LibPool ==
    { [name |-> "foo", sources |-> << <<"foo.c">> >>, headers |-> << <<"foo.h">> >>],
      [name |-> "bar", sources |-> << <<"bar.c">>, <<"util.c">> >>,
                       headers |-> << <<"bar.h">>, <<"api.h">> >>] }

ExePool ==
    { [name |-> "app", sources |-> << <<"main.c">> >>, dependencies |-> <<"foo">>],
      [name |-> "tool", sources |-> << <<"main.c">>, <<"CMakeLists.txt">> >>],
      [name |-> "gen", sources |-> << <<"src", "gen.c">> >>, dependencies |-> <<>>] }

Standards == { [cStandard |-> 11, cppStandard |-> 17], <<>> }
EnableTests == { [enableTests |-> TRUE], [enableTests |-> FALSE], <<>> }
OutputDirs == { [outputDir |-> <<"out">>], <<>> }

Configs ==
    { [projectName |-> "demo", libraries |-> libs, executables |-> exes]
          @@ std @@ et @@ od :
        libs \in SeqsUpTo(LibPool, MaxLibs), exes \in SeqsUpTo(ExePool, MaxExes),
        std \in Standards, et \in EnableTests, od \in OutputDirs }

\* the configuration of the specification's scenario
DemoConfig ==
    [projectName |-> "demo", cStandard |-> 11, cppStandard |-> 17,
     libraries |-> << [name |-> "foo", sources |-> << <<"foo.c">> >>,
                       headers |-> << <<"foo.h">> >>] >>,
     executables |-> << [name |-> "app", sources |-> << <<"main.c">> >>,
                         dependencies |-> <<"foo">>] >>,
     enableTests |-> TRUE]

CommandLines == { <<>>, << <<"elsewhere">> >>, << <<"out">> >> }

\* the filesystems a first run may start on, for a configuration
InitialDisks(cfg) ==
    LET root == project_root(cfg, parse_args(<<>>))
        up   == Parent(root)
    IN  { EmptyDisk,
          [p \in {SubSeq(root, 1, k) : k \in 1..Len(root)} |-> DirEntry],
          Put([p \in {SubSeq(up, 1, k) : k \in 1..Len(up)} |-> DirEntry],
              root, FileEntry(<<"kept">>)) }
        \cup (IF up = <<>> THEN {}
              ELSE { [p \in {up} |-> DirEntry], [p \in {up} |-> FileEntry(<<"kept">>)] })

InitWith(docs) ==
    /\ runs = 1
    /\ \E doc \in docs, argv \in CommandLines :
         \E disk \in (IF doc.state = "ok" THEN InitialDisks(doc.json) ELSE {EmptyDisk}),
            other \in (IF doc.state = "ok" THEN {Missing}
                       ELSE {Missing, Document(DemoConfig)}) :
           /\ template = (ScriptDir \o "/" \o TemplateName :> doc)
                         @@ (WorkDir \o "/" \o TemplateName :> other)
           /\ run = StartRun(argv, disk)
           /\ twin = StartRun(<<>>, disk)

Init == InitWith({Missing, Malformed} \cup {Document(c) : c \in Configs})

(***************************************************************************)
(* Actions: one per step of main().  The twin run (no command-line         *)
(* argument, same template, same initial filesystem, same faults) advances *)
(* in lockstep.                                                            *)
(***************************************************************************)
ParseArgs ==
    /\ run.pc = "parse_args"
    /\ run' = ParseArgsStep(run)
    /\ twin' = Step(twin, template, "none")
    /\ UNCHANGED <<template, runs>>

LoadConfig ==
    /\ run.pc = "load"
    /\ run' = LoadConfigStep(run, template)
    /\ twin' = Step(twin, template, "none")
    /\ UNCHANGED <<template, runs>>

CheckRoot ==
    /\ run.pc = "check"
    /\ run' = CheckRootStep(run)
    /\ twin' = Step(twin, template, "none")
    /\ UNCHANGED <<template, runs>>

MkRoot ==
    /\ run.pc = "mkroot"
    /\ \E fault \in Faults :
         run' = MkRootStep(run, fault) /\ twin' = Step(twin, template, fault)
    /\ UNCHANGED <<template, runs>>

WriteRootManifest ==
    /\ run.pc = "write_root"
    /\ \E fault \in Faults :
         run' = WriteRootManifestStep(run, fault) /\ twin' = Step(twin, template, fault)
    /\ UNCHANGED <<template, runs>>

WriteExeSource ==
    /\ run.pc = "exe_src"
    /\ \E fault \in Faults :
         run' = WriteExeSourceStep(run, fault) /\ twin' = Step(twin, template, fault)
    /\ UNCHANGED <<template, runs>>

MkLibDir ==
    /\ run.pc = "mklib"
    /\ \E fault \in Faults :
         run' = MkLibDirStep(run, fault) /\ twin' = Step(twin, template, fault)
    /\ UNCHANGED <<template, runs>>

LibMkdir ==
    /\ run.pc = "lib_mkdir"
    /\ \E fault \in Faults :
         run' = LibMkdirStep(run, fault) /\ twin' = Step(twin, template, fault)
    /\ UNCHANGED <<template, runs>>

LibManifest ==
    /\ run.pc = "lib_manifest"
    /\ \E fault \in Faults :
         run' = LibManifestStep(run, fault) /\ twin' = Step(twin, template, fault)
    /\ UNCHANGED <<template, runs>>

LibSource ==
    /\ run.pc = "lib_src"
    /\ \E fault \in Faults :
         run' = LibSourceStep(run, fault) /\ twin' = Step(twin, template, fault)
    /\ UNCHANGED <<template, runs>>

LibInclude ==
    /\ run.pc = "lib_include"
    /\ \E fault \in Faults :
         run' = LibIncludeStep(run, fault) /\ twin' = Step(twin, template, fault)
    /\ UNCHANGED <<template, runs>>

LibHeader ==
    /\ run.pc = "lib_hdr"
    /\ \E fault \in Faults :
         run' = LibHeaderStep(run, fault) /\ twin' = Step(twin, template, fault)
    /\ UNCHANGED <<template, runs>>

TestsMkdir ==
    /\ run.pc = "tests_mkdir"
    /\ \E fault \in Faults :
         run' = TestsMkdirStep(run, fault) /\ twin' = Step(twin, template, fault)
    /\ UNCHANGED <<template, runs>>

TestsManifest ==
    /\ run.pc = "tests_manifest"
    /\ \E fault \in Faults :
         run' = TestsManifestStep(run, fault) /\ twin' = Step(twin, template, fault)
    /\ UNCHANGED <<template, runs>>

TestsSource ==
    /\ run.pc = "tests_src"
    /\ \E fault \in Faults :
         run' = TestsSourceStep(run, fault) /\ twin' = Step(twin, template, fault)
    /\ UNCHANGED <<template, runs>>

ReportSuccess ==
    /\ run.pc = "success"
    /\ run' = ReportSuccessStep(run)
    /\ twin' = Step(twin, template, "none")
    /\ UNCHANGED <<template, runs>>

\* the tool is started again, in the same place, on what the last run left
Restart ==
    /\ run.pc \in Terminal
    /\ runs < MaxRuns
    /\ runs' = runs + 1
    /\ run' = StartRun(run.argv, run.fs)
    /\ twin' = StartRun(twin.argv, twin.fs)
    /\ UNCHANGED template

Next ==
    \/ ParseArgs
    \/ LoadConfig
    \/ CheckRoot
    \/ MkRoot
    \/ WriteRootManifest
    \/ WriteExeSource
    \/ MkLibDir
    \/ LibMkdir
    \/ LibManifest
    \/ LibSource
    \/ LibInclude
    \/ LibHeader
    \/ TestsMkdir
    \/ TestsManifest
    \/ TestsSource
    \/ ReportSuccess

Spec == Init /\ [][Next]_vars

\* repeated runs, on the configurations with at most one library and executable
RerunConfigs == { c \in Configs : Len(c.libraries) <= 1 /\ Len(c.executables) <= 1 }

InitRerun == InitWith({Missing} \cup {Document(c) : c \in RerunConfigs})

NextRerun == Next \/ Restart

SpecRerun == InitRerun /\ [][NextRerun]_vars

(***************************************************************************)
(* Properties                                                              *)
(***************************************************************************)
\* the root as the specification words it: outputDir/projectName, or projectName
ConfiguredRoot(cfg) ==
    IF "outputDir" \in DOMAIN cfg THEN cfg.outputDir \o <<cfg.projectName>>
    ELSE <<cfg.projectName>>

Loaded(s) == s.config # NoConfig

PastCheck(s) == Loaded(s) /\ s.pc # "check"

Succeeded(s) ==
    s.pc = "returned" /\ s.out # <<>> /\ s.out[Len(s.out)] = "  cmake --build build"

ScriptTemplate == ScriptDir \o "/" \o TemplateName

\* the root manifest as it was written (the second filesystem operation of a run)
ManifestWritten(s) == Len(s.log) >= 2 /\ s.log[2].ok

WrittenManifest(s) == s.log[2].text

Contains(text, line) == \E i \in 1..Len(text) : text[i] = line

\* C1: when the project root (outputDir/projectName, or projectName) exists as a
\* file or a directory at the existence check - also one left by an earlier run -
\* the run returns after printing the error that names the root and has performed
\* no filesystem operation: the filesystem is the one the run started on.
C1_ExistingRootAborts ==
    (PastCheck(run) /\ Exists(run.fs0, ConfiguredRoot(run.config)))
    => /\ run.pc = "returned"
       /\ run.out = << "Error: Directory '" \o Str(ConfiguredRoot(run.config))
                         \o "' already exists." >>
       /\ run.log = <<>>
       /\ run.fs = run.fs0

\* a second run that met the tree a first run wrote and refused it
C1_Witness ==
    /\ runs = 2
    /\ run.pc = "returned"
    /\ Loaded(run)
    /\ (ConfiguredRoot(run.config) \o <<"CMakeLists.txt">>) \in DOMAIN run.fs0
    /\ run.fs = run.fs0
    /\ Len(run.out) = 1

\* C2: when project_template.json next to the script is missing or malformed, the
\* run returns after printing the error that names that path, and no directory
\* or file has been created, whatever lies in the working directory.
C2_LoadFailureWritesNothing ==
    (template[ScriptTemplate].state # "ok" /\ run.pc \notin {"parse_args", "load"})
    => /\ run.pc = "returned"
       /\ run.log = <<>>
       /\ run.fs = run.fs0
       /\ run.out = << IF template[ScriptTemplate].state = "missing"
                       THEN "Error: '" \o ScriptTemplate \o "' not found."
                       ELSE "Error decoding JSON from '" \o ScriptTemplate \o "': "
                              \o template[ScriptTemplate].error >>

\* a malformed template by the script, a well-formed one in the working directory
C2_Witness ==
    /\ template[ScriptTemplate].state = "malformed"
    /\ template[WorkDir \o "/" \o TemplateName].state = "ok"
    /\ run.pc = "returned"

\* C3: with a configuration of the data model (both standards present) and no
\* environment fault, a run that does not report success has changed nothing on
\* the filesystem.
C3_FullTreeOrNothing ==
    (/\ run.pc \in Terminal
     /\ Loaded(run)
     /\ {"cStandard", "cppStandard"} \subseteq DOMAIN run.config
     /\ ~ run.faulted)
    => (Succeeded(run) \/ run.fs = run.fs0)

\* a run that stopped on an error of its own making, part of the tree on disk
C3_PartialTree ==
    /\ run.pc = "raised"
    /\ ~ run.faulted
    /\ {"cStandard", "cppStandard"} \subseteq DOMAIN run.config
    /\ Len(run.config.libraries) = 2
    /\ run.config.libraries[1].name = run.config.libraries[2].name
    /\ run.fs # run.fs0

\* the add_subdirectory, add_executable and set_target_properties lines that the
\* configurations of the model can give rise to
LibSubdirLines == { "add_subdirectory(lib/" \o lib.name \o ")" : lib \in LibPool }

SubdirLines == LibSubdirLines \cup {"add_subdirectory(tests)"}

ExeLines ==
    { "add_executable(" \o exe.name \o " " \o Join(StrAll(exe.sources), " ") \o ")" :
        exe \in ExePool }

PropertiesLines ==
    { "set_target_properties(" \o exe.name \o " PROPERTIES" : exe \in ExePool }

IsSubdirLine(line) == line \in SubdirLines

IsLibSubdirLine(line) == line \in LibSubdirLines

IsExeLine(line) == line \in ExeLines

IsPropertiesLine(line) == line \in PropertiesLines

ExpectedLibLines(cfg) ==
    [i \in 1..Len(cfg.libraries) |->
        "add_subdirectory(lib/" \o cfg.libraries[i].name \o ")"]

ExpectedExeLines(cfg) ==
    [j \in 1..Len(cfg.executables) |->
        "add_executable(" \o cfg.executables[j].name \o " "
           \o Join(StrAll(cfg.executables[j].sources), " ") \o ")"]

ExpectedPropertiesLines(cfg) ==
    [j \in 1..Len(cfg.executables) |->
        "set_target_properties(" \o cfg.executables[j].name \o " PROPERTIES"]

\* C4 as stated: the root manifest holds exactly N add_subdirectory lines, the
\* i-th naming the i-th library, and exactly M add_executable blocks, the j-th
\* naming the j-th executable, whatever enableTests is.
C4_ExactlyNSubdirLines ==
    ManifestWritten(run)
    => /\ SelectSeq(WrittenManifest(run), IsSubdirLine) = ExpectedLibLines(run.config)
       /\ SelectSeq(WrittenManifest(run), IsExeLine) = ExpectedExeLines(run.config)

\* C4 amended: the root manifest holds exactly N add_subdirectory(lib/<name>)
\* lines, the i-th naming the i-th library, followed by one add_subdirectory(tests)
\* line exactly when enableTests is absent or true; and exactly M add_executable
\* blocks (target line and properties line), the j-th naming the j-th executable.
C4_SubdirLinesAndTests ==
    ManifestWritten(run)
    => /\ SelectSeq(WrittenManifest(run), IsSubdirLine)
            = ExpectedLibLines(run.config)
              \o (IF "enableTests" \notin DOMAIN run.config \/ run.config.enableTests
                  THEN <<"add_subdirectory(tests)">> ELSE <<>>)
       /\ SelectSeq(WrittenManifest(run), IsLibSubdirLine) = ExpectedLibLines(run.config)
       /\ SelectSeq(WrittenManifest(run), IsExeLine) = ExpectedExeLines(run.config)
       /\ SelectSeq(WrittenManifest(run), IsPropertiesLine)
            = ExpectedPropertiesLines(run.config)

\* a manifest of two different libraries and two different executables
C4_Witness ==
    /\ ManifestWritten(run)
    /\ Len(run.config.libraries) = 2
    /\ run.config.libraries[1].name # run.config.libraries[2].name
    /\ Len(run.config.executables) = 2
    /\ run.config.executables[1].name # run.config.executables[2].name
    /\ "enableTests" \notin DOMAIN run.config

TestsPath(s) == s.root \o <<"tests">>

TestsDirCreated(s) ==
    /\ IsDir(s.fs, TestsPath(s))
    /\ (TestsPath(s) \o <<"CMakeLists.txt">>) \in DOMAIN s.fs
    /\ s.fs[TestsPath(s) \o <<"CMakeLists.txt">>].kind = "file"
    /\ (TestsPath(s) \o <<"test_foo.cpp">>) \in DOMAIN s.fs
    /\ s.fs[TestsPath(s) \o <<"test_foo.cpp">>].kind = "file"

\* C5: enableTests absent: the manifest includes the tests subdirectory and a
\* successful run creates no tests directory; true: the manifest includes it and
\* the directory is created with CMakeLists.txt and test_foo.cpp; false: neither.
C5_TestsDefaultsDiffer ==
    /\ ManifestWritten(run)
       => (Contains(WrittenManifest(run), "add_subdirectory(tests)")
             <=> ("enableTests" \notin DOMAIN run.config \/ run.config.enableTests))
    /\ Succeeded(run)
       => /\ ("enableTests" \in DOMAIN run.config /\ run.config.enableTests)
               => TestsDirCreated(run)
          /\ ("enableTests" \notin DOMAIN run.config \/ ~ run.config.enableTests)
               => ~ Exists(run.fs, TestsPath(run))
          /\ (Contains(WrittenManifest(run), "add_subdirectory(tests)")
                => TestsDirCreated(run))
               <=> ("enableTests" \in DOMAIN run.config)

\* a successful run without the flag: tests included by the manifest, not on disk
C5_Witness ==
    /\ Succeeded(run)
    /\ "enableTests" \notin DOMAIN run.config
    /\ Contains(WrittenManifest(run), "add_subdirectory(tests)")
    /\ ~ Exists(run.fs, TestsPath(run))

IsFile(fs, p) == p \in DOMAIN fs /\ fs[p].kind = "file"

\* what the scenario's run leaves besides the tests directory
DemoTree(s) ==
    /\ Succeeded(s)
    /\ IsFile(s.fs, <<"demo", "CMakeLists.txt">>)
    /\ \E i \in 1..Len(s.fs[<<"demo", "CMakeLists.txt">>].text) - 2 :
         LET text == s.fs[<<"demo", "CMakeLists.txt">>].text IN
         /\ \E k \in 1..(i - 1) : text[k] = "add_subdirectory(lib/foo)"
         /\ text[i] = "add_executable(app main.c)"
         /\ text[i + 1] = "target_link_libraries(app PRIVATE foo)"
    /\ IsFile(s.fs, <<"demo", "main.c">>)
    /\ Contains(s.fs[<<"demo", "main.c">>].text, "    printf(\"Hello from app\\n\");")
    /\ IsFile(s.fs, <<"demo", "lib", "foo", "CMakeLists.txt">>)
    /\ IsFile(s.fs, <<"demo", "lib", "foo", "foo.c">>)
    /\ Contains(s.fs[<<"demo", "lib", "foo", "foo.c">>].text, "#include \"foo.h\"")
    /\ IsFile(s.fs, <<"demo", "lib", "foo", "include", "foo.h">>)
    /\ Contains(s.fs[<<"demo", "lib", "foo", "include", "foo.h">>].text, "#ifndef FOO_H")

DemoScenario(s) ==
    /\ s.config = DemoConfig
    /\ ~ Exists(s.fs0, <<"demo">>)
    /\ s.pc \in Terminal
    /\ ~ s.faulted

\* C6 as stated: the scenario's run (enableTests true) writes the demo tree and
\* creates no demo/tests directory.
C6_DemoWithoutTests ==
    DemoScenario(run) => (DemoTree(run) /\ ~ Exists(run.fs, <<"demo", "tests">>))

\* C6 amended: the scenario's run (enableTests true) writes the demo tree and,
\* the flag being true, also demo/tests with CMakeLists.txt and test_foo.cpp.
C6_DemoWithTests ==
    DemoScenario(run)
    => /\ DemoTree(run)
       /\ IsDir(run.fs, <<"demo", "tests">>)
       /\ IsFile(run.fs, <<"demo", "tests", "CMakeLists.txt">>)
       /\ IsFile(run.fs, <<"demo", "tests", "test_foo.cpp">>)

\* the scenario's run has finished
C6_Witness == DemoScenario(run) /\ Succeeded(run)

Entry(op, path) == [op |-> op, path |-> path]

Writes(dir, paths) == [i \in 1..Len(paths) |-> Entry("write", dir \o paths[i])]

RECURSIVE ExeOps(_, _)
ExeOps(exes, root) ==
    IF exes = <<>> THEN <<>>
    ELSE Writes(root, Head(exes).sources) \o ExeOps(Tail(exes), root)

RECURSIVE LibOps(_, _)
LibOps(libs, root) ==
    IF libs = <<>> THEN <<>>
    ELSE LET dir == root \o <<"lib", Head(libs).name>> IN
         << Entry("mkdir", dir), Entry("write", dir \o <<"CMakeLists.txt">>) >>
         \o Writes(dir, Head(libs).sources)
         \o << Entry("mkdir", dir \o <<"include">>) >>
         \o Writes(dir \o <<"include">>, Head(libs).headers)
         \o LibOps(Tail(libs), root)

\* the order of C7: root, root manifest, executable sources, lib, the libraries
\* one by one, and last the tests directory with its two files
ExpectedOps(cfg, root) ==
    << Entry("mkdir", root), Entry("write", root \o <<"CMakeLists.txt">>) >>
    \o ExeOps(cfg.executables, root)
    \o << Entry("mkdir", root \o <<"lib">>) >>
    \o LibOps(cfg.libraries, root)
    \o (IF "enableTests" \in DOMAIN cfg /\ cfg.enableTests
        THEN << Entry("mkdir", root \o <<"tests">>),
                Entry("write", root \o <<"tests", "CMakeLists.txt">>),
                Entry("write", root \o <<"tests", "test_foo.cpp">>) >>
        ELSE <<>>)

IsProperPrefix(p, q) == Len(p) < Len(q) /\ p = SubSeq(q, 1, Len(p))

\* the operations attempted are a prefix of the fixed order, only the last of
\* them may have failed, a failure ends the run without the success message, and
\* what is new on disk is what those operations made
OpsArePrefix ==
    IF ~ Loaded(run) THEN run.log = <<>>
    ELSE LET root == ConfiguredRoot(run.config)
             plan == ExpectedOps(run.config, root)
             n    == Len(run.log)
         IN  /\ n <= Len(plan)
             /\ \A i \in 1..n :
                  /\ run.log[i].op = plan[i].op
                  /\ run.log[i].path = plan[i].path
                  /\ run.log[i].ok => run.log[i].path \in DOMAIN run.fs
                  /\ i < n => run.log[i].ok
             /\ (n > 0 /\ ~ run.log[n].ok) => run.pc = "raised"
             /\ run.pc = "raised" => ~ Succeeded(run) /\ Len(run.out) = 1
             /\ \A p \in DOMAIN run.fs \ DOMAIN run.fs0 :
                  \/ \E i \in 1..n : run.log[i].path = p
                  \/ n >= 1 /\ IsProperPrefix(p, root)

\* C7: the filesystem operations happen in one fixed order; when one fails the
\* run halts at once: no later operation is performed, nothing created is
\* removed, no success message is printed; the tree is a prefix of the order.
C7_HaltsWithoutRollback ==
    /\ []OpsArePrefix
    /\ [][/\ \A p \in DOMAIN run.fs : p \in DOMAIN run'.fs
          /\ run.pc \in Terminal => run' = run]_vars

\* a fault stopped the run in the middle of the libraries, the tree half written
C7_Witness ==
    /\ run.pc = "raised"
    /\ run.faulted
    /\ Len(run.log) >= 6
    /\ ~ run.log[Len(run.log)].ok
    /\ (run.root \o <<"lib">>) \in DOMAIN run.fs

\* what a run does and leaves, its command line apart
Outcome(s) ==
    [pc |-> s.pc, config |-> s.config, root |-> s.root, fs |-> s.fs,
     out |-> s.out, log |-> s.log]

GuardOf(name) ==
    CASE name = "foo" -> "FOO_H"
      [] name = "bar" -> "BAR_H"

\* C9: every header file written for a library starts with the include guard
\* <LIBRARY NAME IN UPPER CASE>_H, whatever the header's file name.
C9_GuardFromLibraryName ==
    Loaded(run)
    => \A li \in 1..Len(run.config.libraries) :
         \A hi \in 1..Len(run.config.libraries[li].headers) :
           LET lib == run.config.libraries[li]
               p   == ConfiguredRoot(run.config) \o <<"lib", lib.name, "include">>
                        \o lib.headers[hi]
           IN  (IsFile(run.fs, p) /\ run.fs[p].text # <<>>)
               => /\ run.fs[p].text[1] = "#ifndef " \o GuardOf(lib.name)
                  /\ run.fs[p].text[2] = "#define " \o GuardOf(lib.name)

\* both headers of bar, bar.h and api.h, are on disk
C9_Witness ==
    /\ Loaded(run)
    /\ IsFile(run.fs, run.root \o <<"lib", "bar", "include", "bar.h">>)
    /\ IsFile(run.fs, run.root \o <<"lib", "bar", "include", "api.h">>)
    /\ run.fs[run.root \o <<"lib", "bar", "include", "api.h">>].text # <<>>

\* C10: no path is written twice in one run.
C10_WrittenOnce ==
    \A i, j \in 1..Len(run.log) :
        (i < j /\ run.log[i].op = "write" /\ run.log[j].op = "write"
               /\ run.log[i].ok /\ run.log[j].ok)
        => run.log[i].path # run.log[j].path

====
